---- MODULE Spec2Model ----
(***************************************************************************)
(* Model of pkg/api/app.go (App.TransactionsBroadcast, App.LoadKeys,       *)
(* App.checkAuth, newApp) together with the internal consumer of the       *)
(* InternalChannel, and of the L2 feed that carries the BlockInfo and      *)
(* L2ContractDataEntries records of the blockchain_info proto package.     *)
(***************************************************************************)
EXTENDS Integers, Sequences, FiniteSets, TLC

(***************************************************************************)
(* Bounds of the model.                                                    *)
(***************************************************************************)
NumCalls == 2        \* concurrent TransactionsBroadcast invocations
ChanCap == 1         \* capacity of services.InternalChannel

(***************************************************************************)
(* Program constants.                                                      *)
(***************************************************************************)
TimeoutSeconds == 5  \* time.NewTimer(5 * time.Second)
RespChCap == 1       \* make(chan error, 1)

Calls == 1..NumCalls

NoCh == 0
NoTx == <<>>

(***************************************************************************)
(* The payload b []byte of a broadcast, by what the three decoding steps   *)
(* look at: whether it is JSON at all, its type and version tag, and the   *)
(* chain id its body was built for.                                        *)
(***************************************************************************)
Scheme == "W"
Chains == {"W", "T"}
TxTypes == {4, 99}
TxVersions == {2, 9}
KnownVariants == {<<4, 2>>}

Payloads == [json : BOOLEAN, type : TxTypes, version : TxVersions, chainId : Chains]

\* json.Unmarshal(b, &tt): the type+version tag of a payload that is JSON
JsonUnmarshalOK(b) == b.json

\* proto.GuessTransactionType(&tt): the variant for a known type+version
GuessTransactionTypeOK(b) == <<b.type, b.version>> \in KnownVariants

GuessTransactionType(b) == <<b.type, b.version>>

\* proto.UnmarshalTransactionFromJSON(b, a.services.Scheme, realType)
UnmarshalTransactionFromJSONOK(b, scheme) == b.chainId = scheme

\* decoding that stops after the type+version tag
ParseOK_SkipsBody(b) ==
    /\ JsonUnmarshalOK(b)
    /\ GuessTransactionTypeOK(b)

\* lines 85-99: the three early returns of TransactionsBroadcast
ParseOK(b) ==
    /\ JsonUnmarshalOK(b)
    /\ GuessTransactionTypeOK(b)
    /\ UnmarshalTransactionFromJSONOK(b, Scheme)

(***************************************************************************)
(* State.                                                                  *)
(***************************************************************************)
VARIABLES
    pc,               \* position of each TransactionsBroadcast call
    payload,          \* b of each call
    ctxDone,          \* ctx.Done() of each call's context is closed
    respCh,           \* the reply channel each call made (NoCh before)
    delay,            \* the timer of each call: running, seconds left, delay.C
    ret,              \* what each call returned: [tx, err]
    InternalChannel,  \* services.InternalChannel, a bounded FIFO
    respChans,        \* contents of every reply channel made so far
    nextCh,           \* number of reply channels made so far
    processing,       \* the message the internal side took and has not answered
    utx,              \* calls whose transaction the UTX pool admitted
    stalled,          \* the internal side took nothing since the call began
    sendDelayed,      \* time passed while the call was blocked sending
    received          \* the verdict the call read from its reply channel

apiVars == <<pc, payload, ctxDone, respCh, delay, ret, InternalChannel, respChans,
             nextCh, processing, utx, stalled, sendDelayed, received>>

NoPayload == [json |-> FALSE, type |-> 0, version |-> 0, chainId |-> ""]
NoTimer == [active |-> FALSE, left |-> 0, C |-> 0]
NoRet == [tx |-> NoTx, err |-> "none"]
NoMsg == [kind |-> "none", respCh |-> NoCh, call |-> 0]

Verdicts == {"nil", "InternalError"}

\* a message that carries the transaction of the first call, whoever sends it
NewBroadcastTransaction_FirstTx(ch, c) == [kind |-> "broadcast", respCh |-> ch, call |-> 1]

\* messages.NewBroadcastTransaction(respCh, realType)
NewBroadcastTransaction(ch, c) == [kind |-> "broadcast", respCh |-> ch, call |-> c]

ApiInit ==
    /\ pc = [c \in Calls |-> "idle"]
    /\ payload = [c \in Calls |-> NoPayload]
    /\ ctxDone = [c \in Calls |-> FALSE]
    /\ respCh = [c \in Calls |-> NoCh]
    /\ delay = [c \in Calls |-> NoTimer]
    /\ ret = [c \in Calls |-> NoRet]
    /\ InternalChannel = <<>>
    /\ respChans = <<>>
    /\ nextCh = 0
    /\ processing = NoMsg
    /\ utx = {}
    /\ stalled = [c \in Calls |-> FALSE]
    /\ sendDelayed = [c \in Calls |-> FALSE]
    /\ received = [c \in Calls |-> "none"]

(***************************************************************************)
(* App.TransactionsBroadcast, one action per step between suspensions.     *)
(***************************************************************************)
\* one reply channel for every call
MakeRespCh_Shared(n) == 1

\* respCh := make(chan error, 1): a channel no earlier call holds
MakeRespCh(n) == n + 1

\* lines 85-101: decode the payload; reject it, or make the reply channel
\* (calls are numbered in the order they begin)
Begin(c, b) ==
    /\ pc[c] = "idle"
    /\ \A d \in Calls : d < c => pc[d] # "idle"
    /\ payload' = [payload EXCEPT ![c] = b]
    /\ IF ParseOK(b)
       THEN /\ pc' = [pc EXCEPT ![c] = "send"]
            /\ respCh' = [respCh EXCEPT ![c] = MakeRespCh(nextCh)]
            /\ respChans' = Append(respChans, <<>>)
            /\ nextCh' = nextCh + 1
            /\ stalled' = [stalled EXCEPT ![c] = TRUE]
            /\ UNCHANGED ret
       ELSE /\ pc' = [pc EXCEPT ![c] = "done"]
            /\ ret' = [ret EXCEPT ![c] = [tx |-> NoTx, err |-> "BadRequest"]]
            /\ UNCHANGED <<respCh, respChans, nextCh, stalled>>
    /\ UNCHANGED <<ctxDone, delay, InternalChannel, processing, utx,
                   sendDelayed, received>>

\* the send case of the first select is ready
CanSend(c) == Len(InternalChannel) < ChanCap

\* delay = time.NewTimer(5 * time.Second)
NewTimer(d) == [active |-> TRUE, left |-> d, C |-> 0]

\* lines 103-111: the message is handed to the channel, then the timer starts
SendInternal(c) ==
    /\ pc[c] = "send"
    /\ CanSend(c)
    /\ InternalChannel' = Append(InternalChannel, NewBroadcastTransaction(respCh[c], c))
    /\ delay' = [delay EXCEPT ![c] = NewTimer(TimeoutSeconds)]
    /\ pc' = [pc EXCEPT ![c] = "await"]
    /\ UNCHANGED <<payload, ctxDone, respCh, ret, respChans, nextCh, processing, utx, stalled, sendDelayed, received>>

\* lines 105-106: ctx.Done() wins the first select
SendCtxDone(c) ==
    /\ pc[c] = "send"
    /\ ctxDone[c]
    /\ pc' = [pc EXCEPT ![c] = "done"]
    /\ ret' = [ret EXCEPT ![c] = [tx |-> NoTx, err |-> "CtxError"]]
    /\ UNCHANGED <<payload, ctxDone, respCh, delay, InternalChannel, respChans, nextCh,
                   processing, utx, stalled, sendDelayed, received>>

\* lines 112-119: the deferred delay.Stop() and the drain of delay.C
DeferStop(d, fired) ==
    IF d.active
    THEN [active |-> FALSE, left |-> 0, C |-> d.C]
    ELSE IF ~fired THEN [d EXCEPT !.C = 0] ELSE d

\* lines 121-122: ctx.Done() wins the second select
AwaitCtxDone(c) ==
    /\ pc[c] = "await"
    /\ ctxDone[c]
    /\ pc' = [pc EXCEPT ![c] = "done"]
    /\ ret' = [ret EXCEPT ![c] = [tx |-> NoTx, err |-> "CtxError"]]
    /\ delay' = [delay EXCEPT ![c] = DeferStop(delay[c], FALSE)]
    /\ UNCHANGED <<payload, ctxDone, respCh, InternalChannel, respChans, nextCh,
                   processing, utx, stalled, sendDelayed, received>>

\* a timer case that is never ready
TimerReady_Never(c) == FALSE

\* a value waits on delay.C
TimerReady(c) == delay[c].C = 1

\* lines 123-125: the timer case
AwaitTimer(c) ==
    /\ pc[c] = "await"
    /\ TimerReady(c)
    /\ pc' = [pc EXCEPT ![c] = "done"]
    /\ ret' = [ret EXCEPT ![c] = [tx |-> NoTx, err |-> "Timeout"]]
    /\ delay' = [delay EXCEPT ![c] = DeferStop([delay[c] EXCEPT !.C = 0], TRUE)]
    /\ UNCHANGED <<payload, ctxDone, respCh, InternalChannel, respChans, nextCh,
                   processing, utx, stalled, sendDelayed, received>>

\* a reply case that ignores the verdict
Result_AlwaysTx(c, err) == [tx |-> GuessTransactionType(payload[c]), err |-> "nil"]

\* lines 127-130: the error of the verdict, or realType
Result(c, err) ==
    IF err # "nil"
    THEN [tx |-> NoTx, err |-> err]
    ELSE [tx |-> GuessTransactionType(payload[c]), err |-> "nil"]

\* lines 126-130: the reply case
AwaitResp(c) ==
    /\ pc[c] = "await"
    /\ respChans[respCh[c]] # <<>>
    /\ LET err == Head(respChans[respCh[c]]) IN
        /\ received' = [received EXCEPT ![c] = err]
        /\ ret' = [ret EXCEPT ![c] = Result(c, err)]
    /\ respChans' = [respChans EXCEPT ![respCh[c]] = Tail(@)]
    /\ pc' = [pc EXCEPT ![c] = "done"]
    /\ delay' = [delay EXCEPT ![c] = DeferStop(delay[c], FALSE)]
    /\ UNCHANGED <<payload, ctxDone, respCh, InternalChannel, nextCh, processing, utx, stalled, sendDelayed>>

\* the caller cancels the context of a call that has not returned
Cancel(c) ==
    /\ pc[c] \in {"send", "await"}
    /\ ~ctxDone[c]
    /\ ctxDone' = [ctxDone EXCEPT ![c] = TRUE]
    /\ UNCHANGED <<pc, payload, respCh, delay, ret, InternalChannel, respChans, nextCh,
                   processing, utx, stalled, sendDelayed, received>>

(***************************************************************************)
(* Time: the runtime fires a timer whose time is up; a second passes only  *)
(* when no call can take a step and no timer is due.                       *)
(***************************************************************************)
TimerFire(c) ==
    /\ delay[c].active
    /\ delay[c].left = 0
    /\ delay' = [delay EXCEPT ![c] = [active |-> FALSE, left |-> 0, C |-> 1]]
    /\ UNCHANGED <<pc, payload, ctxDone, respCh, ret, InternalChannel, respChans, nextCh,
                   processing, utx, stalled, sendDelayed, received>>

CallReady(c) ==
    \/ pc[c] = "send" /\ (CanSend(c) \/ ctxDone[c])
    \/ pc[c] = "await" /\ (ctxDone[c] \/ TimerReady(c) \/ respChans[respCh[c]] # <<>>)

Tick ==
    /\ \E c \in Calls : pc[c] = "send" \/ delay[c].active
    /\ \A c \in Calls : ~CallReady(c) /\ ~(delay[c].active /\ delay[c].left = 0)
    /\ delay' = [c \in Calls |->
                    IF delay[c].active THEN [delay[c] EXCEPT !.left = @ - 1] ELSE delay[c]]
    /\ sendDelayed' = [c \in Calls |-> sendDelayed[c] \/ pc[c] = "send"]
    /\ UNCHANGED <<pc, payload, ctxDone, respCh, ret, InternalChannel, respChans, nextCh,
                   processing, utx, stalled, received>>

(***************************************************************************)
(* The internal side: the single consumer of the InternalChannel, which    *)
(* takes a broadcast, lets the UTX pool admit or refuse its transaction    *)
(* and sends the verdict on the reply channel of the message.              *)
(***************************************************************************)
Take ==
    /\ processing = NoMsg
    /\ InternalChannel # <<>>
    /\ processing' = Head(InternalChannel)
    /\ InternalChannel' = Tail(InternalChannel)
    /\ stalled' = [c \in Calls |-> FALSE]
    /\ UNCHANGED <<pc, payload, ctxDone, respCh, delay, ret, respChans, nextCh, utx, sendDelayed, received>>

Reply(v) ==
    /\ processing # NoMsg
    /\ Len(respChans[processing.respCh]) < RespChCap
    /\ respChans' = [respChans EXCEPT ![processing.respCh] = Append(@, v)]
    /\ utx' = IF v = "nil" THEN utx \cup {processing.call} ELSE utx
    /\ processing' = NoMsg
    /\ UNCHANGED <<pc, payload, ctxDone, respCh, delay, ret, InternalChannel, nextCh, stalled, sendDelayed, received>>

(***************************************************************************)
(* newApp, App.checkAuth and App.LoadKeys.                                 *)
(***************************************************************************)
MaxLoads == 3        \* LoadKeys invocations

Keys == {"", "k1", "k2", "k3"}
Passwords == {"p1", "p2"}
WalletPassword == "p1"

\* crypto.SecureHash([]byte(key)): the digest of a key
SecureHash(key) ==
    CASE key = "" -> "c5d2"
      [] key = "k1" -> "7f3a"
      [] key = "k2" -> "09be"
      [] key = "k3" -> "e41d"

VARIABLES
    configuredKey,    \* the apiKey newApp was called with
    hashedApiKey,     \* App.hashedApiKey
    apiKeyEnabled,    \* App.apiKeyEnabled
    wallet,           \* services.Wallet: whether it is loaded, and its Load calls
    lastLoadKeys      \* the last LoadKeys call: its arguments, result and effect

authVars == <<configuredKey, hashedApiKey, apiKeyEnabled, wallet, lastLoadKeys>>

NoLoadKeys == [key |-> "", password |-> "", err |-> "none", loadCalled |-> FALSE,
               walletBefore |-> [loaded |-> FALSE, calls |-> 0]]

\* lines 63-82: newApp(apiKey, ...)
newApp(apiKey) ==
    /\ configuredKey = apiKey
    /\ hashedApiKey = SecureHash(apiKey)
    /\ apiKeyEnabled = (apiKey # "")
    /\ wallet = [loaded |-> FALSE, calls |-> 0]
    /\ lastLoadKeys = NoLoadKeys

\* checkAuth without the apiKeyEnabled test
checkAuth_NoEnabledCheck(key) ==
    IF SecureHash(key) # hashedApiKey THEN "AuthFailed" ELSE "nil"

\* lines 160-174: App.checkAuth(key); the digest of a key is always computed
\* (crypto.SecureHash fails for no input), so the error of line 167 is not a result
checkAuth(key) ==
    IF ~apiKeyEnabled THEN "AuthFailed"
    ELSE IF SecureHash(key) # hashedApiKey THEN "AuthFailed"
    ELSE "nil"

\* services.Wallet.Load(password)
WalletLoad(w, password) ==
    [loaded |-> w.loaded \/ password = WalletPassword, calls |-> w.calls + 1]

WalletLoadErr(password) == IF password = WalletPassword THEN "nil" ELSE "WalletError"

\* lines 134-140: App.LoadKeys(apiKey, password)
LoadKeys(apiKey, password) ==
    /\ wallet.calls < MaxLoads
    /\ LET err == checkAuth(apiKey) IN
        IF err # "nil"
        THEN /\ lastLoadKeys' = [key |-> apiKey, password |-> password, err |-> err,
                                 loadCalled |-> FALSE, walletBefore |-> wallet]
             /\ UNCHANGED wallet
        ELSE /\ wallet' = WalletLoad(wallet, password)
             /\ lastLoadKeys' = [key |-> apiKey, password |-> password,
                                 err |-> WalletLoadErr(password),
                                 loadCalled |-> TRUE, walletBefore |-> wallet]
    /\ UNCHANGED <<configuredKey, hashedApiKey, apiKeyEnabled>>

AuthIdle ==
    /\ configuredKey = ""
    /\ hashedApiKey = SecureHash("")
    /\ apiKeyEnabled = FALSE
    /\ wallet = [loaded |-> FALSE, calls |-> 0]
    /\ lastLoadKeys = NoLoadKeys

(***************************************************************************)
(* The block applier and the L2 feed.  The feed carries the records of     *)
(* the blockchain_info package, BlockInfo and L2ContractDataEntries, each  *)
(* with the Height and the BlockID of its block, and Rollback records.     *)
(***************************************************************************)
MaxCmds == 5         \* commands the applier processes
MaxRollback == 2     \* max_rollback, scaled down from its default of 2000

\* The blocks that can be observed: block 1 is genesis; ParentOf[b] is the parent.
\*   1 - 2 - 3 - 4        5 and 6 fork at genesis, 7 and 8 fork at block 2
ParentOf == <<0, 1, 2, 3, 1, 5, 2, 7>>
WeightOf == <<1, 1, 1, 1, 1, 2, 1, 2>>
Genesis == 1
Blocks == 2..8
BadBlocks == {8}

RECURSIVE Ancestry(_)
\* the chain from genesis up to block b
Ancestry(b) == IF b = Genesis THEN <<Genesis>> ELSE Append(Ancestry(ParentOf[b]), b)

HeightOf(b) == Len(Ancestry(b))

RECURSIVE WeightSum(_)
WeightSum(seq) == IF seq = <<>> THEN 0 ELSE WeightOf[Head(seq)] + WeightSum(Tail(seq))

\* cumulative score of the chain that ends at block b
Score(b) == WeightSum(Ancestry(b))

IsPrefix(p, q) == Len(p) <= Len(q) /\ SubSeq(q, 1, Len(p)) = p

RECURSIVE CommonLen(_, _)
\* the height of the latest common ancestor of two chains from genesis
CommonLen(p, q) ==
    IF p = <<>> \/ q = <<>> \/ Head(p) # Head(q) THEN 0
    ELSE 1 + CommonLen(Tail(p), Tail(q))

\* message BlockInfo { uint64 Height = 1; bytes BlockID = 3; ... }
BlockInfo(h, b) == [kind |-> "BlockInfo", Height |-> h, BlockID |-> b]

\* message L2ContractDataEntries { uint64 Height = 1; bytes BlockID = 2; ... }
L2ContractDataEntries(h, b) == [kind |-> "L2ContractDataEntries", Height |-> h, BlockID |-> b]

RollbackRecord(h) == [kind |-> "Rollback", Height |-> h, BlockID |-> 0]

VARIABLES
    known,            \* the blocks of the DAG (genesis included)
    invalidBlocks,    \* blocks marked Invalid in the DAG
    chain,            \* the canonical chain: chain[h] is the block at height h
    feed,             \* every record the applier appended to the feed
    cmds,             \* commands processed so far
    cursor,           \* the persisted L2 cursor [height, id]
    held,             \* the chain of the records the subscriber holds
    view,             \* the feed's position for the open subscription
    lastRec           \* the record delivered last, and what the subscriber held

feedVars == <<known, invalidBlocks, chain, feed, cmds, cursor, held, view, lastRec>>

NoRec == [kind |-> "none", Height |-> 0, BlockID |-> 0, tip |-> 0, canonical |-> TRUE]

FeedIdle ==
    /\ known = {Genesis}
    /\ invalidBlocks = {}
    /\ chain = <<Genesis>>
    /\ feed = <<>>
    /\ cmds = 0
    /\ cursor = [height |-> 1, id |-> Genesis]
    /\ held = <<Genesis>>
    /\ view = <<Genesis>>
    /\ lastRec = NoRec

\* a reorganisation that announces no rollback
RollbackRecords_None(from, to) == <<>>

RECURSIVE RollbackRecords(_, _)

\* step 5: Rollback(h) for every height walked back, from the tip down to `to`
RollbackRecords(from, to) ==
    IF from <= to THEN <<>>
    ELSE <<RollbackRecord(from - 1)>> \o RollbackRecords(from - 1, to)

RECURSIVE ForwardRecords(_, _)
\* step 5: one BlockInfo and one L2ContractDataEntries per committed block, ascending
ForwardRecords(c, from) ==
    IF from > Len(c) THEN <<>>
    ELSE <<BlockInfo(from, c[from]), L2ContractDataEntries(from, c[from])>>
            \o ForwardRecords(c, from + 1)

Eligible(k, inv) ==
    \A i \in 1..Len(Ancestry(k)) : Ancestry(k)[i] \notin inv

\* fork choice: the head of the highest-scoring chain, ties to the smallest id
BestTip(k, inv) ==
    CHOOSE b \in k :
        /\ Eligible(b, inv)
        /\ \A o \in k :
            Eligible(o, inv) =>
                (Score(o) < Score(b) \/ (Score(o) = Score(b) /\ b <= o))

\* section 4.4: ApplyBlock(block, origin)
ApplyBlock(b) ==
    /\ cmds < MaxCmds
    /\ cmds' = cmds + 1
    /\ IF ParentOf[b] \notin known \/ b \in invalidBlocks
       THEN UNCHANGED <<known, invalidBlocks, chain, feed>>
       ELSE LET k == known \cup {b}
                best == Ancestry(BestTip(k, invalidBlocks))
                anc == CommonLen(chain, best)
                bad == {i \in (anc + 1)..Len(best) : best[i] \in BadBlocks}
            IN  /\ known' = k
                /\ IF best = chain \/ Len(chain) - anc > MaxRollback
                   THEN UNCHANGED <<invalidBlocks, chain, feed>>
                   ELSE IF bad # {}
                   THEN /\ invalidBlocks' = invalidBlocks \cup {best[i] : i \in bad}
                        /\ UNCHANGED <<chain, feed>>
                   ELSE /\ chain' = best
                        /\ feed' = feed \o RollbackRecords(Len(chain), anc)
                                        \o ForwardRecords(best, anc + 1)
                        /\ UNCHANGED invalidBlocks
    /\ UNCHANGED <<cursor, held, view, lastRec>>

\* section 4.4: Rollback(to_height)
Rollback(to) ==
    /\ cmds < MaxCmds
    /\ cmds' = cmds + 1
    /\ to < Len(chain)
    /\ IF Len(chain) - to > MaxRollback
       THEN UNCHANGED <<chain, feed>>
       ELSE /\ chain' = SubSeq(chain, 1, to)
            /\ feed' = feed \o RollbackRecords(Len(chain), to)
    /\ UNCHANGED <<known, invalidBlocks, cursor, held, view, lastRec>>

\* section 4.5: Subscribe(from_height, from_block_id): where the stream starts
SubscribeView(h, id) ==
    IF h <= Len(chain) /\ chain[h] = id THEN SubSeq(chain, 1, h) ELSE Ancestry(id)

\* a restart or a re-subscribe: the subscriber is back at its persisted cursor
Resubscribe ==
    /\ held' = Ancestry(cursor.id)
    /\ view' = SubscribeView(cursor.height, cursor.id)
    /\ lastRec' = NoRec
    /\ UNCHANGED <<known, invalidBlocks, chain, feed, cmds, cursor>>

\* a feed that never compares its position with the canonical chain
MustRewind_Never(v) == FALSE

\* the subscription is on a stale fork: its position is not on the canonical chain
MustRewind(v) == ~IsPrefix(v, chain)

\* section 4.5: Next: a Rollback record while the subscription is on a stale fork,
\* otherwise the records of the next canonical block
Deliver ==
    /\ MustRewind(view) \/ Len(view) < Len(chain)
    /\ IF MustRewind(view)
       THEN /\ lastRec' = [kind |-> "Rollback", Height |-> Len(view) - 1, BlockID |-> 0,
                           tip |-> held[Len(held)], canonical |-> IsPrefix(held, chain)]
            /\ view' = SubSeq(view, 1, Len(view) - 1)
            /\ held' = SubSeq(held, 1, Len(view) - 1)
       ELSE /\ lastRec' = [kind |-> "BlockInfo", Height |-> Len(view) + 1,
                           BlockID |-> chain[Len(view) + 1],
                           tip |-> held[Len(held)], canonical |-> IsPrefix(held, chain)]
            /\ view' = Append(view, chain[Len(view) + 1])
            /\ held' = Append(held, chain[Len(view) + 1])
    /\ UNCHANGED <<known, invalidBlocks, chain, feed, cmds, cursor>>

\* section 4.5: Ack(height, block_id) persists the cursor
Ack ==
    /\ cursor # [height |-> Len(held), id |-> held[Len(held)]]
    /\ cursor' = [height |-> Len(held), id |-> held[Len(held)]]
    /\ UNCHANGED <<known, invalidBlocks, chain, feed, cmds, held, view, lastRec>>

vars == <<apiVars, authVars, feedVars>>

(***************************************************************************)
(* Specifications.                                                         *)
(***************************************************************************)
Init == ApiInit /\ AuthIdle /\ FeedIdle

Next ==
    \/ \E c \in Calls, b \in Payloads : Begin(c, b) /\ UNCHANGED <<authVars, feedVars>>
    \/ \E c \in Calls : SendInternal(c) /\ UNCHANGED <<authVars, feedVars>>
    \/ \E c \in Calls : SendCtxDone(c) /\ UNCHANGED <<authVars, feedVars>>
    \/ \E c \in Calls : AwaitCtxDone(c) /\ UNCHANGED <<authVars, feedVars>>
    \/ \E c \in Calls : AwaitTimer(c) /\ UNCHANGED <<authVars, feedVars>>
    \/ \E c \in Calls : AwaitResp(c) /\ UNCHANGED <<authVars, feedVars>>
    \/ \E c \in Calls : Cancel(c) /\ UNCHANGED <<authVars, feedVars>>
    \/ \E c \in Calls : TimerFire(c) /\ UNCHANGED <<authVars, feedVars>>
    \/ Tick /\ UNCHANGED <<authVars, feedVars>>
    \/ Take /\ UNCHANGED <<authVars, feedVars>>
    \/ \E v \in Verdicts : Reply(v) /\ UNCHANGED <<authVars, feedVars>>

Spec == Init /\ [][Next]_vars

\* a call that can proceed does, a due timer fires, and time passes
SelectSend(c) == (SendInternal(c) \/ SendCtxDone(c)) /\ UNCHANGED <<authVars, feedVars>>

SelectAwait(c) == (AwaitCtxDone(c) \/ AwaitTimer(c) \/ AwaitResp(c)) /\ UNCHANGED <<authVars, feedVars>>

Fairness ==
    /\ \A c \in Calls : WF_vars(SelectSend(c))
    /\ \A c \in Calls : WF_vars(SelectAwait(c))
    /\ \A c \in Calls : WF_vars(TimerFire(c) /\ UNCHANGED <<authVars, feedVars>>)
    /\ WF_vars(Tick /\ UNCHANGED <<authVars, feedVars>>)

\* The calls a wait can concern: those whose payload decodes (a rejected call
\* returns before it touches the channel, the timer or any other call).
WellFormed == {b \in Payloads : ParseOK(b)}

LiveNext ==
    \/ \E c \in Calls, b \in WellFormed : Begin(c, b) /\ UNCHANGED <<authVars, feedVars>>
    \/ \E c \in Calls : SendInternal(c) /\ UNCHANGED <<authVars, feedVars>>
    \/ \E c \in Calls : SendCtxDone(c) /\ UNCHANGED <<authVars, feedVars>>
    \/ \E c \in Calls : AwaitCtxDone(c) /\ UNCHANGED <<authVars, feedVars>>
    \/ \E c \in Calls : AwaitTimer(c) /\ UNCHANGED <<authVars, feedVars>>
    \/ \E c \in Calls : AwaitResp(c) /\ UNCHANGED <<authVars, feedVars>>
    \/ \E c \in Calls : Cancel(c) /\ UNCHANGED <<authVars, feedVars>>
    \/ \E c \in Calls : TimerFire(c) /\ UNCHANGED <<authVars, feedVars>>
    \/ Tick /\ UNCHANGED <<authVars, feedVars>>
    \/ Take /\ UNCHANGED <<authVars, feedVars>>
    \/ \E v \in Verdicts : Reply(v) /\ UNCHANGED <<authVars, feedVars>>

LiveSpec == Init /\ [][LiveNext]_vars /\ Fairness

AuthInit == ApiInit /\ FeedIdle /\ \E apiKey \in Keys : newApp(apiKey)

AuthNext ==
    \E apiKey \in Keys, password \in Passwords :
        LoadKeys(apiKey, password) /\ UNCHANGED <<apiVars, feedVars>>

AuthSpec == AuthInit /\ [][AuthNext]_vars

FeedNext ==
    \/ \E b \in Blocks : ApplyBlock(b) /\ UNCHANGED <<apiVars, authVars>>
    \/ \E to \in 1..Len(chain) : Rollback(to) /\ UNCHANGED <<apiVars, authVars>>
    \/ Resubscribe /\ UNCHANGED <<apiVars, authVars>>
    \/ Deliver /\ UNCHANGED <<apiVars, authVars>>
    \/ Ack /\ UNCHANGED <<apiVars, authVars>>

FeedSpec == Init /\ [][FeedNext]_vars

(***************************************************************************)
(* Properties of TransactionsBroadcast and LoadKeys.                       *)
(***************************************************************************)
InChannel(c) ==
    \E i \in 1..Len(InternalChannel) :
        InternalChannel[i].kind = "broadcast" /\ InternalChannel[i].call = c

\* a transaction reaches a block only from the UTX pool
Admitted(c) == c \in utx

\* the internal side has sent a verdict on the reply channel of call c
VerdictArrived(c) ==
    \/ received[c] # "none"
    \/ respCh[c] # NoCh /\ respChans[respCh[c]] # <<>>

SentVerdict(c) ==
    IF received[c] # "none" THEN received[c]
    ELSE IF respCh[c] # NoCh /\ respChans[respCh[c]] # <<>> THEN Head(respChans[respCh[c]])
    ELSE "none"

Rejected(b) ==
    \/ ~JsonUnmarshalOK(b)
    \/ ~GuessTransactionTypeOK(b)
    \/ ~UnmarshalTransactionFromJSONOK(b, Scheme)

\* C1: a call whose message was handed to the internal channel does not wait for
\* the reply for ever (a call enters the second select once, so this is: from some
\* point on no call is in it), and a call that returned with no verdict on its reply
\* channel and no cancellation of its context returned the Timeout error of the
\* 5-second timer.
C1_TimeoutEndsTheWait ==
    /\ <>[](\A c \in Calls : pc[c] # "await")
    /\ [](\A c \in Calls :
            (pc[c] = "done" /\ respCh[c] # NoCh) =>
                (ret[c].err = "Timeout" \/ ctxDone[c] \/ VerdictArrived(c)))

C1_Witness ==
    \E c \in Calls :
        /\ pc[c] = "done"
        /\ ret[c].err = "Timeout"
        /\ ~ctxDone[c]
        /\ ~VerdictArrived(c)

\* C2: a call made while the internal side takes nothing gets Timeout 5 seconds
\* after submission: unless its context is cancelled, no time passes before its
\* timer runs, and what it returns is Timeout.
C2_TimeoutCountedFromSubmission ==
    \A c \in Calls :
        (stalled[c] /\ ~ctxDone[c]) =>
            /\ ~sendDelayed[c]
            /\ (pc[c] = "done" => ret[c].err = "Timeout")

\* C3 as stated: the transaction of a call that returned Timeout is neither in the
\* UTX pool nor on chain, then and ever after.
C3_TimeoutNeverAdmitted ==
    \A c \in Calls : ret[c].err = "Timeout" => ~Admitted(c)

\* C3 as amended: the transaction of a call that returned Timeout while the internal
\* side took nothing since the call began is neither in the UTX pool nor on chain,
\* and its message is still in the internal channel.
C3_TimeoutWhileStalled ==
    \A c \in Calls :
        (ret[c].err = "Timeout" /\ stalled[c]) => (~Admitted(c) /\ InChannel(c))

C3_Witness ==
    \E c \in Calls : ret[c].err = "Timeout" /\ stalled[c] /\ InChannel(c)

\* C4: after a call returned the context error, no message of that call remains in
\* the internal channel and none is processed later.
C4_CancelReleasesSlot ==
    \A c \in Calls :
        (pc[c] = "done" /\ ret[c].err = "CtxError") =>
            /\ ~InChannel(c)
            /\ processing.call # c
            /\ ~Admitted(c)

\* C5: a payload rejected by one of the three decoding steps makes the call return
\* BadRequest with no transaction, and the call made no reply channel, sent no
\* message and started no timer; reply channels exist only for the other calls.
C5_RejectedAtBoundary ==
    /\ \A c \in Calls :
        (pc[c] # "idle" /\ Rejected(payload[c])) =>
            /\ pc[c] = "done"
            /\ ret[c] = [tx |-> NoTx, err |-> "BadRequest"]
            /\ respCh[c] = NoCh
            /\ ~InChannel(c)
            /\ processing.call # c
            /\ delay[c] = NoTimer
    /\ nextCh = Cardinality({c \in Calls : pc[c] # "idle" /\ ~Rejected(payload[c])})
    /\ Len(respChans) = nextCh

C5_Witness ==
    \E c \in Calls :
        /\ pc[c] = "done"
        /\ ret[c].err = "BadRequest"
        /\ JsonUnmarshalOK(payload[c])
        /\ GuessTransactionTypeOK(payload[c])
        /\ payload[c].chainId # Scheme

\* C6 as stated: a completed call returns the transaction exactly when it received a
\* nil verdict, otherwise one of the four errors, and a non-nil verdict the internal
\* side sent is what the call returns.
C6_OneOfFourOutcomes ==
    \A c \in Calls :
        pc[c] = "done" =>
            /\ (ret[c].tx # NoTx <=> received[c] = "nil")
            /\ (ret[c].tx = NoTx =>
                    ret[c].err \in {"BadRequest", "AuthFailed", "Timeout", "InternalError"})
            /\ (SentVerdict(c) \notin {"none", "nil"} => ret[c].err = SentVerdict(c))

\* C6 as amended: a completed call returns the transaction exactly when it received a
\* nil verdict; otherwise it returns no transaction and one of BadRequest, Timeout,
\* the context error or the non-nil verdict it received; a verdict it received is
\* what it returns, and a call that returned BadRequest, Timeout or the context
\* error received none.
C6_OneOutcome ==
    \A c \in Calls :
        pc[c] = "done" =>
            /\ (ret[c].tx # NoTx <=> received[c] = "nil")
            /\ (ret[c].tx # NoTx =>
                    ret[c] = [tx |-> GuessTransactionType(payload[c]), err |-> "nil"])
            /\ (ret[c].tx = NoTx =>
                    ret[c].err \in {"BadRequest", "Timeout", "CtxError", "InternalError"})
            /\ (received[c] \notin {"none", "nil"} => ret[c].err = received[c])
            /\ (ret[c].err \in {"BadRequest", "Timeout", "CtxError"} => received[c] = "none")

C6_Witness ==
    \E c \in Calls :
        /\ pc[c] = "done"
        /\ received[c] = "InternalError"
        /\ ret[c] = [tx |-> NoTx, err |-> "InternalError"]

C10_ReplyNeverBlocks ==
    /\ \A c \in Calls :
        Cardinality({i \in 1..Len(InternalChannel) :
            InternalChannel[i].kind = "broadcast" /\ InternalChannel[i].call = c}) <= 1
    /\ \A c \in Calls : (InChannel(c) \/ processing.call = c) => pc[c] \in {"await", "done"}
    /\ \A c1, c2 \in Calls :
        (c1 # c2 /\ respCh[c1] # NoCh /\ respCh[c2] # NoCh) => respCh[c1] # respCh[c2]
    /\ \A i \in 1..Len(InternalChannel) :
        InternalChannel[i].kind = "broadcast" =>
            InternalChannel[i].respCh = respCh[InternalChannel[i].call]
    /\ \A ch \in 1..Len(respChans) : Len(respChans[ch]) <= RespChCap
    /\ processing # NoMsg => Len(respChans[processing.respCh]) < RespChCap
    /\ \A c \in Calls : received[c] = "nil" => Admitted(c)

C10_Witness ==
    \E c \in Calls :
        /\ pc[c] = "done"
        /\ ret[c].err \in {"Timeout", "CtxError"}
        /\ respCh[c] # NoCh
        /\ respChans[respCh[c]] # <<>>

(***************************************************************************)
(* Properties of the L2 feed.                                              *)
(***************************************************************************)
Bad == <<0>>

RECURSIVE Replay(_, _)
\* The chain above genesis that the records feed[i..] leave, starting from acc: a
\* BlockInfo is followed at once by the L2ContractDataEntries of the same Height
\* and BlockID and is one above the chain so far; a Rollback(h) regresses the chain
\* to the lower height h.  Bad when a record breaks these rules.
Replay(i, acc) ==
    IF i > Len(feed) THEN acc
    ELSE IF feed[i].kind = "BlockInfo"
    THEN IF /\ i + 1 <= Len(feed)
            /\ feed[i + 1] = L2ContractDataEntries(feed[i].Height, feed[i].BlockID)
            /\ feed[i].Height = Len(acc) + 2
         THEN Replay(i + 2, Append(acc, feed[i].BlockID))
         ELSE Bad
    ELSE IF feed[i].kind = "Rollback"
    THEN IF feed[i].Height >= 1 /\ feed[i].Height < Len(acc) + 1
         THEN Replay(i + 1, SubSeq(acc, 1, feed[i].Height - 1))
         ELSE Bad
    ELSE Bad

\* C7: the records of the feed, read in order, leave exactly the committed blocks of
\* the canonical chain, one BlockInfo and one L2ContractDataEntries with the same
\* (Height, BlockID) per block in ascending height; a Rollback(h) stands only where
\* the chain was above h, and between a BlockInfo and a later BlockInfo that is not
\* higher stands a Rollback to below the later one.
C7_FeedMatchesChain ==
    /\ Replay(1, <<>>) = Tail(chain)
    /\ \A i, j \in 1..Len(feed) :
        (/\ i < j
         /\ feed[i].kind = "BlockInfo"
         /\ feed[j].kind = "BlockInfo"
         /\ feed[j].Height <= feed[i].Height) =>
            \E r \in (i + 1)..(j - 1) :
                feed[r].kind = "Rollback" /\ feed[r].Height < feed[j].Height

C7_Witness ==
    /\ Len(chain) >= 3
    /\ \E r \in 1..Len(feed) :
        /\ feed[r].kind = "Rollback"
        /\ \E j \in (r + 1)..Len(feed) : feed[j].kind = "BlockInfo"

\* C8: a forward record is delivered only to a subscriber whose records are a prefix
\* of the canonical chain, its block is one above the last record the subscriber
\* holds and has that record's block as parent; a Rollback record is delivered only
\* to a subscriber on a stale fork; and the feed's position is the subscriber's.
C8_ResumeOnParentMatch ==
    /\ view = held
    /\ lastRec.kind = "BlockInfo" =>
        /\ lastRec.canonical
        /\ ParentOf[lastRec.BlockID] = lastRec.tip
        /\ lastRec.Height = HeightOf(lastRec.tip) + 1
    /\ lastRec.kind = "Rollback" => ~lastRec.canonical

C8_Witness ==
    /\ lastRec.kind = "BlockInfo"
    /\ lastRec.Height <= cursor.height
    /\ lastRec.BlockID # cursor.id
    /\ ~IsPrefix(Ancestry(cursor.id), chain)

====
